---- MODULE Spec2Model ----
(***************************************************************************)
(* Authentication and session lifecycle of the investment-banking CRM      *)
(* backend: routes/auth.js (signup, login, refresh, logout, logout-all,    *)
(* change-password, verify, forgot-password, reset-password), the request  *)
(* gate of middleware/auth.js and the User schema of models/index.js.      *)
(*                                                                         *)
(* One action is one HTTP request handled to completion (validation chain, *)
(* middleware, handler, every save it awaits).  The requests modelled are  *)
(* those the rate limiter lets through.  Time is counted in hours.         *)
(* The last part of the module handles signup, login and forgot-password   *)
(* one await at a time, so that requests in flight interleave.             *)
(***************************************************************************)
EXTENDS Integers, Sequences, FiniteSets, TLC

VARIABLES
    users,   \* the users collection: users[i] is the stored document with _id = i
    now,     \* the clock (Date.now()), in hours
    last,    \* the request handled by the latest step, the store it found, its response
    streak,  \* history: the email whose logins failed the password check most recently,
             \* and how many of them in a row
    mail,    \* history: the reset tokens forgot-password has signed and logged, in order
    procs    \* the requests in flight between two awaits: procs[p] is the handler's
             \* position and its local variables

vars == <<users, now, last, streak, mail, procs>>

\* ------------------------------------------------------------------ bounds
MaxTime == 2

\* The clock advances in ticks; this many make an hour.
TicksPerHour == 2

\* The requests that can be in flight at once.
MaxProcs == 2

Procs == 1..MaxProcs

\* A slot with no request in flight.
Idle == [pc |-> "idle"]

\* ------------------------------------------------------------ JS values
\* An optional value (undefined, null or a value) is <<>> or <<value>>.
Undefined == <<>>

Some(v) == <<v>>

Val(o) == o[1]

\* JS truthiness of an optional value that is an object, a function or a date.
Truthy(o) == o # Undefined

\* ---------------------------------------------------------- characters
\* An email is the sequence of characters of its local part; the domain is fixed.
LowerChar(c) == IF c = "A" THEN "a" ELSE IF c = "B" THEN "b" ELSE c

ToLower(s) == [i \in DOMAIN s |-> LowerChar(s[i])]

RECURSIVE TrimLeft(_)
TrimLeft(s) == IF s # <<>> /\ Head(s) = " " THEN TrimLeft(Tail(s)) ELSE s

RECURSIVE TrimRight(_)
TrimRight(s) ==
    IF s # <<>> /\ s[Len(s)] = " " THEN TrimRight(SubSeq(s, 1, Len(s) - 1)) ELSE s

Trim(s) == TrimRight(TrimLeft(s))

\* The canonical email of the specification: trimmed, lowercased.
CanonicalEmail(e) == ToLower(Trim(e))

\* -------------------------------------------------------------- inputs
\* The addresses signups are made with, and one more that never signs up.
SignupEmails == { <<"a">>, <<"A">>, <<" ", "a">> }

RawEmails == SignupEmails \cup { <<"b">> }

Pw(n, lo, up, dg) == [len |-> n, lower |-> lo, upper |-> up, digit |-> dg]

\* A password is its length and the character classes it contains.
GoodPassword  == Pw(8, TRUE, TRUE, TRUE)
OtherPassword == Pw(9, TRUE, TRUE, TRUE)
NoDigitPassword == Pw(8, TRUE, TRUE, FALSE)
ShortPassword == Pw(7, TRUE, TRUE, TRUE)
NoPassword    == Pw(0, FALSE, FALSE, FALSE)

Passwords == {GoodPassword, OtherPassword, NoDigitPassword, ShortPassword, NoPassword}

\* The passwords signups are made with.
SignupPasswords == {GoodPassword, NoDigitPassword, ShortPassword}

\* ---------------------------------------------------------- validators
MinPasswordLength == 8

\* body('email').isEmail(): no character outside the address alphabet.
IsEmail(e) == e # <<>> /\ \A i \in DOMAIN e : e[i] # " "

\* A normalisation that keeps the letter case of the address.
EmailAsTyped(e) == e

\* .normalizeEmail(): lowercases the address (no trimming).
NormalizeEmail(e) == ToLower(e)

\* A validator that lets every password through.
AnyPassword(p) == TRUE

\* isLength({min: 8}) and matches(/^(?=.*[a-z])(?=.*[A-Z])(?=.*\d)/)
StrongPassword(p) == p.len >= MinPasswordLength /\ p.lower /\ p.upper /\ p.digit

\* .notEmpty()
NotEmpty(p) == p.len > 0

\* userValidation.signup followed by handleValidationErrors
SignupValidationOk(e, p) == IsEmail(e) /\ StrongPassword(p)

\* userValidation.login followed by handleValidationErrors
LoginValidationOk(e, p) == IsEmail(e) /\ NotEmpty(p)

\* --------------------------------------------------------------- bcrypt
SaltRounds == 12

BcryptHash(p) == <<"bcrypt", SaltRounds, p>>

BcryptCompare(p, h) == h = BcryptHash(p)

\* ------------------------------------------------------------------ jwt
JwtSecret == "JWT_SECRET"
RefreshSecret == "REFRESH_TOKEN_SECRET"

\* expiresIn '24h', '7d', '1h', in ticks of the clock.
AccessTtl == 24 * TicksPerHour
RefreshTtl == 168 * TicksPerHour
ResetTtl == 1 * TicksPerHour

\* The claims of a token; a claim the payload lacks is "" (purpose) or <<>> (email).
Payload(id, email, purpose) == [id |-> id, email |-> email, purpose |-> purpose]

\* jwt.sign(payload, secret, {expiresIn}): iat is the clock, exp = iat + expiresIn.
JwtSign(payload, secret, ttl, t) ==
    [payload |-> payload, secret |-> secret, iat |-> t, exp |-> t + ttl]

\* A verification that checks the expiry and not the signing key.
JwtVerifyAnyKey(token, secret, t) ==
    IF t >= token.exp THEN "TokenExpiredError" ELSE "ok"

\* A verification that refuses every token.
JwtVerifyRejects(token, secret, t) == "JsonWebTokenError"

\* jwt.verify(token, secret): the name of the error thrown, or "ok".
JwtVerify(token, secret, t) ==
    IF token.secret # secret THEN "JsonWebTokenError"
    ELSE IF t >= token.exp THEN "TokenExpiredError"
    ELSE "ok"

AccessTokenFor(id, email, t) ==
    JwtSign(Payload(id, email, ""), JwtSecret, AccessTtl, t)

RefreshTokenFor(id, email, t) ==
    JwtSign(Payload(id, email, ""), RefreshSecret, RefreshTtl, t)

ResetTokenFor(id, t) ==
    JwtSign(Payload(id, <<>>, "password-reset"), JwtSecret, ResetTtl, t)

\* ---------------------------------------------------------- User model
\* The paths of userSchema; save() persists these and nothing else.
UserSchemaPaths ==
    {"email", "passwordHash", "role", "refreshTokens", "lastLogin",
     "loginAttempts", "lockUntil", "status"}

\* userSchema declares no instance method and no virtual: the table is empty.
UserSchemaMethods == [m \in {} |-> [u \in {} |-> u]]

\* A property read on a loaded document: a schema path, a method, or undefined.
Get(doc, name) ==
    IF name \in DOMAIN doc THEN Some(doc[name])
    ELSE IF name \in DOMAIN UserSchemaMethods THEN Some(name)
    ELSE Undefined

\* Calling a method of the document.
CallMethod(doc, name) == UserSchemaMethods[name][doc]

\* new User({email, passwordHash, ...}): the schema setters (trim, lowercase) and
\* defaults; fields the schema does not declare (emailVerified) are dropped.
NewUser(email, passwordHash, t) ==
    [email |-> ToLower(Trim(email)), passwordHash |-> passwordHash, role |-> "user",
     refreshTokens |-> <<>>, lastLogin |-> t, loginAttempts |-> 0,
     lockUntil |-> Undefined, status |-> "active"]

\* userSchema.pre('save'): lowercase the email.
PreSave(doc) == [doc EXCEPT !.email = ToLower(doc.email)]

\* save(): only the schema's paths reach the store.
Persist(doc) == [f \in UserSchemaPaths |-> PreSave(doc)[f]]

\* Assigning a property on a document (a schema path or an ad-hoc property).
Assign(doc, name, v) == [f \in DOMAIN doc \cup {name} |-> IF f = name THEN v ELSE doc[f]]

\* User.findOne({email}): the _id of the document with that email, or undefined.
FindOneByEmail(store, email) ==
    IF \E i \in DOMAIN store : store[i].email = email
    THEN Some(CHOOSE i \in DOMAIN store : store[i].email = email)
    ELSE Undefined

\* User.findById(id) of the routes (the model exported as {User}).
FindById(store, id) == IF id \in DOMAIN store THEN Some(id) ELSE Undefined

\* The unique index on email: inserting a second document with the email fails (E11000).
DuplicateKey(store, doc) == \E i \in DOMAIN store : store[i].email = PreSave(doc).email

\* ------------------------------------------------------------ responses
Resp(status, code, message) ==
    [status |-> status, code |-> code, message |-> message,
     accessToken |-> Undefined, cookie |-> Undefined]

WithTokens(r, access, refresh) ==
    [r EXCEPT !.accessToken = Some(access), !.cookie = Some(refresh)]

NoRequest == [op |-> "none", req |-> <<>>, pre |-> <<>>, resp |-> <<>>]

Handled(op, req, resp) == [op |-> op, req |-> req, pre |-> users, resp |-> resp]

ValidationError == Resp(400, "VALIDATION_ERROR", "Validation error")

\* ----------------------------------------------------------------- Init
Init ==
    /\ users = <<>>
    /\ now = 0
    /\ last = NoRequest
    /\ streak = [who |-> Undefined, n |-> 0]
    /\ mail = <<>>
    /\ procs = [p \in Procs |-> Idle]

\* --------------------------------------------------------------- signup
SignupResult(store, rawEmail, password, t) ==
    LET email == NormalizeEmail(rawEmail)
        user == NewUser(email, BcryptHash(password), t)
        id == Len(store) + 1
        accessToken == AccessTokenFor(id, user.email, t)
        refreshToken == RefreshTokenFor(id, user.email, t)
        saved == Assign(user, "refreshTokens", <<refreshToken>>)
    IN  IF ~SignupValidationOk(rawEmail, password)
        THEN [store |-> store, resp |-> ValidationError]
        ELSE IF FindOneByEmail(store, email) # Undefined
        THEN [store |-> store,
              resp |-> Resp(400, "USER_EXISTS", "User already exists with this email")]
        ELSE IF DuplicateKey(store, user)
        THEN [store |-> store,
              resp |-> Resp(500, "SIGNUP_ERROR", "Server error during signup")]
        ELSE [store |-> Append(store, Persist(saved)),
              resp |-> WithTokens(Resp(201, "", "User created successfully"),
                                  accessToken, refreshToken)]

Signup(rawEmail, password) ==
    LET r == SignupResult(users, rawEmail, password, now)
    IN  /\ users' = r.store
        /\ last' = Handled("signup", [email |-> rawEmail, password |-> password], r.resp)
        /\ UNCHANGED <<now, streak, mail, procs>>

\* ---------------------------------------------------------------- login
MaxRefreshTokens == 5

SliceFirst(s, n) == IF Len(s) <= n THEN s ELSE SubSeq(s, 1, n)

\* Array.prototype.slice(-n)
SliceLast(s, n) == IF Len(s) <= n THEN s ELSE SubSeq(s, Len(s) - n + 1, Len(s))

\* user.refreshTokens.push(token); if (length > 5) refreshTokens = slice(-5)
PushRefreshToken(list, token) ==
    LET pushed == Append(list, token)
    IN  IF Len(pushed) > MaxRefreshTokens THEN SliceLast(pushed, MaxRefreshTokens)
        ELSE pushed

\* A lock test that never lets go: any lockUntil, elapsed or not, refuses the login.
LockNeverExpires(user) == user.lockUntil # Undefined

\* if (user.isLocked)
LoginSeesLock(user) == Truthy(Get(user, "isLocked"))

\* if (user.incLoginAttempts) await user.incLoginAttempts()
LoginFailurePath(user) ==
    IF Truthy(Get(user, "incLoginAttempts")) THEN CallMethod(user, "incLoginAttempts")
    ELSE user

\* if (user.loginAttempts > 0 && user.resetLoginAttempts) await user.resetLoginAttempts()
LoginSuccessPath(user) ==
    IF user.loginAttempts > 0 /\ Truthy(Get(user, "resetLoginAttempts"))
    THEN CallMethod(user, "resetLoginAttempts")
    ELSE user

\* An answer that tells an unregistered address apart.
UserNotFoundResponse == Resp(404, "USER_NOT_FOUND", "User not found")

\* if (!user) return res.status(401).json(...)
UnknownEmailResponse == Resp(401, "INVALID_CREDENTIALS", "Invalid credentials")

\* if (!isPasswordValid) ... return res.status(401).json(...)
WrongPasswordResponse == Resp(401, "INVALID_CREDENTIALS", "Invalid credentials")

AccountLocked ==
    Resp(423, "ACCOUNT_LOCKED",
         "Account temporarily locked due to too many failed login attempts")

\* An answer that does not tell an inactive account from a wrong password.
StatusHidden == Resp(401, "INVALID_CREDENTIALS", "Invalid credentials")

AccountInactive == Resp(401, "ACCOUNT_INACTIVE", "Account is not active")

LoginResult(store, rawEmail, password, t) ==
    LET email == NormalizeEmail(rawEmail)
        found == FindOneByEmail(store, email)
        id == Val(found)
        user == store[id]
        reset == LoginSuccessPath(user)
        stamped == Assign(reset, "lastLogin", t)
        accessToken == AccessTokenFor(id, user.email, t)
        refreshToken == RefreshTokenFor(id, user.email, t)
        saved == Assign(stamped, "refreshTokens",
                        PushRefreshToken(stamped.refreshTokens, refreshToken))
    IN  IF ~LoginValidationOk(rawEmail, password)
        THEN [store |-> store, resp |-> ValidationError, outcome |-> "rejected"]
        ELSE IF found = Undefined
        THEN [store |-> store, resp |-> UnknownEmailResponse, outcome |-> "unknown"]
        ELSE IF LoginSeesLock(user)
        THEN [store |-> store, resp |-> AccountLocked, outcome |-> "locked"]
        ELSE IF user.status # "active"
        THEN [store |-> store, resp |-> AccountInactive, outcome |-> "inactive"]
        ELSE IF ~BcryptCompare(password, user.passwordHash)
        THEN [store |-> [store EXCEPT ![id] = Persist(LoginFailurePath(user))],
              resp |-> WrongPasswordResponse, outcome |-> "wrongPassword"]
        ELSE [store |-> [store EXCEPT ![id] = Persist(saved)],
              resp |-> WithTokens(Resp(200, "", "Login successful"),
                                  accessToken, refreshToken),
              outcome |-> "success"]

\* History of consecutive failed password checks, kept for the latest failing email.
MaxStreak == 6

StreakAfter(s, email, outcome) ==
    IF outcome = "wrongPassword"
    THEN IF s.who = email
         THEN [s EXCEPT !.n = IF s.n < MaxStreak THEN s.n + 1 ELSE s.n]
         ELSE [who |-> email, n |-> 1]
    ELSE IF outcome = "success" /\ s.who = email
    THEN [who |-> Undefined, n |-> 0]
    ELSE s

LoginStep(rawEmail, password) ==
    LET r == LoginResult(users, rawEmail, password, now)
    IN  /\ users' = r.store
        /\ last' = Handled("login",
                           [email |-> rawEmail, password |-> password,
                            outcome |-> r.outcome], r.resp)
        /\ UNCHANGED now

Login(rawEmail, password) ==
    /\ LoginStep(rawEmail, password)
    /\ UNCHANGED <<streak, mail, procs>>

\* The same request, with the history of failed password checks kept.
LoginCounted(rawEmail, password) ==
    /\ LoginStep(rawEmail, password)
    /\ streak' = StreakAfter(streak, NormalizeEmail(rawEmail),
                             LoginResult(users, rawEmail, password, now).outcome)
    /\ UNCHANGED <<mail, procs>>

\* ---------------------------------------------------- middleware/auth.js
\* An object that has the model's findById among its properties.
ExportsWithFindById ==
    {"User", "Contact", "Interview", "Document", "Analytics", "findById"}

\* What require('../models') returns: the object {User, Contact, Interview, Document,
\* Analytics}.  The middleware binds the whole object to the name User.
ModelsExports == {"User", "Contact", "Interview", "Document", "Analytics"}

\* User.findById(decoded.id) in the middleware: findById is read on the exports object;
\* calling a property the object lacks throws a TypeError.
MiddlewareFindById(store, id) ==
    IF "findById" \in ModelsExports
    THEN [threw |-> FALSE, doc |-> FindById(store, id)]
    ELSE [threw |-> TRUE, doc |-> Undefined]

Deny(resp) == [next |-> FALSE, resp |-> resp, user |-> Undefined]

Pass(user) == [next |-> TRUE, resp |-> <<>>, user |-> user]

\* authenticateToken: bearer is the token of the Authorization header, if any.
AuthenticateToken(store, bearer, t) ==
    LET token == Val(bearer)
        verdict == JwtVerify(token, JwtSecret, t)
        look == MiddlewareFindById(store, token.payload.id)
    IN  IF bearer = Undefined
        THEN Deny(Resp(401, "MISSING_TOKEN", "Access token required"))
        ELSE IF verdict = "TokenExpiredError"
        THEN Deny(Resp(401, "TOKEN_EXPIRED", "Token expired"))
        ELSE IF verdict = "JsonWebTokenError"
        THEN Deny(Resp(403, "INVALID_TOKEN", "Invalid token"))
        ELSE IF look.threw
        THEN Deny(Resp(500, "AUTH_ERROR", "Authentication error"))
        ELSE IF look.doc = Undefined
        THEN Deny(Resp(401, "USER_NOT_FOUND", "User not found"))
        ELSE IF store[Val(look.doc)].status = "inactive"
        THEN Deny(Resp(401, "ACCOUNT_INACTIVE", "Account is inactive"))
        ELSE Pass(look.doc)

InvalidRefreshToken == Resp(401, "INVALID_REFRESH_TOKEN", "Invalid refresh token")

\* validateRefreshToken: every exception ends in the same 401.
ValidateRefreshToken(store, bodyToken, t) ==
    LET token == Val(bodyToken)
        look == MiddlewareFindById(store, token.payload.id)
    IN  IF bodyToken = Undefined
        THEN Deny(Resp(401, "MISSING_REFRESH_TOKEN", "Refresh token required"))
        ELSE IF JwtVerify(token, RefreshSecret, t) # "ok"
        THEN Deny(InvalidRefreshToken)
        ELSE IF look.threw
        THEN Deny(InvalidRefreshToken)
        ELSE IF look.doc = Undefined
        THEN Deny(InvalidRefreshToken)
        ELSE Pass(look.doc)

\* -------------------------------------------------------------- refresh
RefreshResult(store, bodyToken, t) ==
    LET gate == ValidateRefreshToken(store, bodyToken, t)
        id == Val(gate.user)
    IN  IF ~gate.next THEN gate.resp
        ELSE [Resp(200, "", "Token refreshed successfully")
                EXCEPT !.accessToken = Some(AccessTokenFor(id, store[id].email, t))]

Refresh(bodyToken) ==
    /\ last' = Handled("refresh", [token |-> bodyToken],
                       RefreshResult(users, bodyToken, now))
    /\ UNCHANGED <<users, now, streak, mail, procs>>

\* --------------------------------------------------------------- logout
\* user.refreshTokens.filter(token => token !== refreshToken)
WithoutToken(list, token) == SelectSeq(list, LAMBDA x : x # token)

LogoutResult(store, bearer, cookie, t) ==
    LET gate == AuthenticateToken(store, bearer, t)
        found == FindById(store, Val(gate.user))
        id == Val(found)
        saved == Assign(store[id], "refreshTokens",
                        WithoutToken(store[id].refreshTokens, Val(cookie)))
        ok == Resp(200, "LOGOUT_SUCCESS", "Logout successful")
    IN  IF ~gate.next THEN [store |-> store, resp |-> gate.resp]
        ELSE IF cookie # Undefined /\ found # Undefined
        THEN [store |-> [store EXCEPT ![id] = Persist(saved)], resp |-> ok]
        ELSE [store |-> store, resp |-> ok]

Logout(bearer, cookie) ==
    LET r == LogoutResult(users, bearer, cookie, now)
    IN  /\ users' = r.store
        /\ last' = Handled("logout", [bearer |-> bearer, cookie |-> cookie], r.resp)
        /\ UNCHANGED <<now, streak, mail, procs>>

LogoutAllResult(store, bearer, t) ==
    LET gate == AuthenticateToken(store, bearer, t)
        found == FindById(store, Val(gate.user))
        id == Val(found)
        ok == Resp(200, "LOGOUT_ALL_SUCCESS", "Logged out from all devices successfully")
    IN  IF ~gate.next THEN [store |-> store, resp |-> gate.resp]
        ELSE IF found # Undefined
        THEN [store |-> [store EXCEPT ![id] = Persist(Assign(store[id], "refreshTokens", <<>>))],
              resp |-> ok]
        ELSE [store |-> store, resp |-> ok]

LogoutAll(bearer) ==
    LET r == LogoutAllResult(users, bearer, now)
    IN  /\ users' = r.store
        /\ last' = Handled("logoutAll", [bearer |-> bearer], r.resp)
        /\ UNCHANGED <<now, streak, mail, procs>>

\* --------------------------------------------------------------- verify
VerifyResult(store, bearer, t) ==
    LET gate == AuthenticateToken(store, bearer, t)
    IN  IF ~gate.next THEN gate.resp ELSE Resp(200, "TOKEN_VALID", "Token is valid")

Verify(bearer) ==
    /\ last' = Handled("verify", [bearer |-> bearer], VerifyResult(users, bearer, now))
    /\ UNCHANGED <<users, now, streak, mail, procs>>

\* ------------------------------------------------------ change-password
\* userValidation.changePassword followed by handleValidationErrors
ChangePasswordValidationOk(current, new) == NotEmpty(current) /\ StrongPassword(new)

ChangePasswordResult(store, bearer, current, new, t) ==
    LET gate == AuthenticateToken(store, bearer, t)
        id == Val(FindById(store, Val(gate.user)))
        user == store[id]
        saved == Assign(Assign(user, "passwordHash", BcryptHash(new)), "refreshTokens", <<>>)
    IN  IF ~gate.next THEN [store |-> store, resp |-> gate.resp]
        ELSE IF ~ChangePasswordValidationOk(current, new)
        THEN [store |-> store, resp |-> ValidationError]
        ELSE IF ~BcryptCompare(current, user.passwordHash)
        THEN [store |-> store,
              resp |-> Resp(400, "INVALID_CURRENT_PASSWORD", "Current password is incorrect")]
        ELSE [store |-> [store EXCEPT ![id] = Persist(saved)],
              resp |-> Resp(200, "PASSWORD_CHANGED",
                            "Password changed successfully. Please log in again.")]

ChangePassword(bearer, current, new) ==
    LET r == ChangePasswordResult(users, bearer, current, new, now)
    IN  /\ users' = r.store
        /\ last' = Handled("changePassword",
                           [bearer |-> bearer, current |-> current, new |-> new], r.resp)
        /\ UNCHANGED <<now, streak, mail, procs>>

\* ------------------------------------------------------ forgot-password
ResetEmailSent ==
    Resp(200, "RESET_EMAIL_SENT",
         "If an account with that email exists, a password reset link has been sent.")

\* The route is declared with userValidation.login: the body needs a password too.
ForgotPasswordResult(store, rawEmail, password, t) ==
    LET email == NormalizeEmail(rawEmail)
        found == FindOneByEmail(store, email)
        id == Val(found)
        resetToken == ResetTokenFor(id, t)
        marked == Assign(Assign(store[id], "passwordResetToken", resetToken),
                         "passwordResetExpires", t + ResetTtl)
    IN  IF ~LoginValidationOk(rawEmail, password)
        THEN [store |-> store, resp |-> ValidationError]
        ELSE IF found # Undefined
        THEN [store |-> [store EXCEPT ![id] = Persist(marked)], resp |-> ResetEmailSent]
        ELSE [store |-> store, resp |-> ResetEmailSent]

ForgotPassword(rawEmail, password) ==
    LET r == ForgotPasswordResult(users, rawEmail, password, now)
    IN  /\ users' = r.store
        /\ last' = Handled("forgotPassword",
                           [email |-> rawEmail, password |-> password], r.resp)
        /\ UNCHANGED <<now, streak, mail, procs>>

\* ------------------------------------------------------- reset-password
InvalidOrExpiredToken ==
    Resp(400, "INVALID_OR_EXPIRED_TOKEN", "Invalid or expired reset token")

\* A test that lets every reset token through.
NeverRefused(user, token, t) == FALSE

\* A test of the stored expiry alone, without comparing the token.
ExpiryOnlyRefused(user, token, t) ==
    /\ Get(user, "passwordResetExpires") # Undefined
    /\ Val(Get(user, "passwordResetExpires")) < t

\* !user || user.passwordResetToken !== token || user.passwordResetExpires < new Date()
ResetRefused(user, token, t) ==
    \/ Get(user, "passwordResetToken") # Some(token)
    \/ /\ Get(user, "passwordResetExpires") # Undefined
       /\ Val(Get(user, "passwordResetExpires")) < t

ResetPasswordResult(store, bodyToken, new, t) ==
    LET token == Val(bodyToken)
        found == FindById(store, token.payload.id)
        id == Val(found)
        user == store[id]
        saved == Assign(Assign(Assign(Assign(user, "passwordHash", BcryptHash(new)),
                                      "passwordResetToken", Undefined),
                               "passwordResetExpires", Undefined),
                        "refreshTokens", <<>>)
    IN  IF bodyToken = Undefined \/ ~NotEmpty(new)
        THEN [store |-> store,
              resp |-> Resp(400, "MISSING_REQUIRED_FIELDS",
                            "Token and new password are required")]
        ELSE IF JwtVerify(token, JwtSecret, t) # "ok"
        THEN [store |-> store, resp |-> InvalidOrExpiredToken]
        ELSE IF token.payload.purpose # "password-reset"
        THEN [store |-> store,
              resp |-> Resp(400, "INVALID_RESET_TOKEN", "Invalid reset token")]
        ELSE IF found = Undefined
        THEN [store |-> store, resp |-> InvalidOrExpiredToken]
        ELSE IF ResetRefused(user, token, t)
        THEN [store |-> store, resp |-> InvalidOrExpiredToken]
        ELSE [store |-> [store EXCEPT ![id] = Persist(saved)],
              resp |-> Resp(200, "PASSWORD_RESET_SUCCESS",
                            "Password reset successful. Please log in with your new password.")]

ResetPassword(bodyToken, new) ==
    LET r == ResetPasswordResult(users, bodyToken, new, now)
    IN  /\ users' = r.store
        /\ last' = Handled("resetPassword", [token |-> bodyToken, new |-> new], r.resp)
        /\ UNCHANGED <<now, streak, mail, procs>>

\* ------------------------------------------------- tokens a client holds
\* A token signed with a key that is neither secret.
ForgedToken == JwtSign(Payload(1, <<"a">>, ""), "attacker", AccessTtl, 0)

\* The refresh tokens of the stored lists.
StoredRefreshTokens(store) ==
    UNION {{store[i].refreshTokens[k] : k \in DOMAIN store[i].refreshTokens} :
              i \in DOMAIN store}

\* The access token issued with each of them.
IssuedAccessTokens(store) ==
    {AccessTokenFor(tok.payload.id, tok.payload.email, tok.iat) :
        tok \in StoredRefreshTokens(store)}

\* The reset tokens forgot-password may have signed since the latest login.
IssuedResetTokens(store, t) ==
    UNION {{ResetTokenFor(i, s) : s \in store[i].lastLogin..t} : i \in DOMAIN store}

TokenInputs(store, t) ==
    {Undefined} \cup
    {Some(tok) : tok \in StoredRefreshTokens(store) \cup IssuedAccessTokens(store)
                         \cup IssuedResetTokens(store, t) \cup {ForgedToken}}

\* ---------------------------------------------------------------- clock
Tick ==
    /\ now < MaxTime
    /\ now' = now + 1
    /\ last' = NoRequest
    /\ UNCHANGED <<users, streak, mail, procs>>

\* ------------------------------------------------- the store, from outside
MaxAttempts == 1
LockInstant == 1

\* A write to a stored document that no route makes: an operator suspends or restores
\* the account, or the lock fields hold what an earlier deployment left in them.
StoreUpdate(i, status, attempts, lockUntil) ==
    /\ i \in DOMAIN users
    /\ users' = [users EXCEPT ![i] = [@ EXCEPT !.status = status,
                                               !.loginAttempts = attempts,
                                               !.lockUntil = lockUntil]]
    /\ users' # users
    /\ last' = NoRequest
    /\ UNCHANGED <<now, streak, mail, procs>>

Statuses == {"active", "inactive", "suspended"}

\* ------------------------------------------------------------------ Next
NewPasswords == {OtherPassword, NoDigitPassword, NoPassword}

CurrentPasswords == {GoodPassword, OtherPassword}

Next ==
    \/ \E e \in SignupEmails, p \in SignupPasswords : Signup(e, p)
    \/ \E e \in RawEmails, p \in Passwords : Login(e, p)
    \/ \E b \in TokenInputs(users, now) : Refresh(b)
    \/ \E b \in TokenInputs(users, now) :
          \E c \in {Undefined} \cup {Some(tok) : tok \in StoredRefreshTokens(users)} :
             Logout(b, c)
    \/ \E b \in TokenInputs(users, now) : LogoutAll(b)
    \/ \E b \in TokenInputs(users, now) : Verify(b)
    \/ \E b \in TokenInputs(users, now), c \in CurrentPasswords, n \in NewPasswords :
          ChangePassword(b, c, n)
    \/ \E e \in RawEmails, p \in {GoodPassword, NoPassword} : ForgotPassword(e, p)
    \/ \E b \in TokenInputs(users, now), n \in NewPasswords : ResetPassword(b, n)
    \/ Tick

Spec == Init /\ [][Next]_vars

\* Signups and logins alone, with the history of failed password checks.
NextLockout ==
    \/ \E e \in SignupEmails, p \in SignupPasswords : Signup(e, p)
    \/ \E e \in RawEmails, p \in Passwords : LoginCounted(e, p)
    \/ Tick

SpecLockout == Init /\ [][NextLockout]_vars

\* Signups and logins against a store that is also written from outside.
NextStore ==
    \/ \E e \in SignupEmails, p \in SignupPasswords : Signup(e, p)
    \/ \E e \in RawEmails, p \in Passwords : Login(e, p)
    \/ \E i \in DOMAIN users, s \in Statuses, a \in 0..MaxAttempts,
          l \in {Undefined, Some(LockInstant)} : StoreUpdate(i, s, a, l)
    \/ Tick

SpecStore == Init /\ [][NextStore]_vars

\* Refreshes against a store that is also written from outside.
NextRefresh ==
    \/ \E e \in {<<"a">>}, p \in {GoodPassword} : Signup(e, p)
    \/ \E e \in {<<"a">>}, p \in {GoodPassword, OtherPassword} : Login(e, p)
    \/ \E b \in {Undefined} \cup {Some(tok) : tok \in StoredRefreshTokens(users)} :
          Refresh(b)
    \/ \E i \in DOMAIN users, s \in Statuses, a \in 0..MaxAttempts,
          l \in {Undefined, Some(LockInstant)} : StoreUpdate(i, s, a, l)
    \/ Tick

SpecRefresh == Init /\ [][NextRefresh]_vars

\* ======================================================================
\* Requests in flight: the handlers, one await at a time
\* ======================================================================
\* A slot's handler returns: its response is recorded with the store its first read
\* found, and the slot is free again.
Respond(p, op, req, pre, resp) ==
    /\ last' = [op |-> op, req |-> req, pre |-> pre, resp |-> resp]
    /\ procs' = [procs EXCEPT ![p] = Idle]

\* The handler goes on to its next await.
Await(p, frame) ==
    /\ procs' = [procs EXCEPT ![p] = frame]
    /\ UNCHANGED last

\* signup, up to 'await User.findOne({ email })' and the test of its result.
SignupCheck(p, rawEmail, password) ==
    LET req == [email |-> rawEmail, password |-> password]
        email == NormalizeEmail(rawEmail)
    IN  /\ procs[p] = Idle
        /\ IF ~SignupValidationOk(rawEmail, password)
           THEN Respond(p, "signup", req, users, ValidationError)
           ELSE IF FindOneByEmail(users, email) # Undefined
           THEN Respond(p, "signup", req, users,
                        Resp(400, "USER_EXISTS", "User already exists with this email"))
           ELSE Await(p, [pc |-> "signupInsert", req |-> req, pre |-> users,
                          email |-> email])
        /\ UNCHANGED <<users, now, streak, mail>>

\* signup, 'new User({...})' and the first 'await user.save()': the insert.  A
\* duplicate key makes save() throw, and the catch block answers 500.
SignupInsert(p) ==
    LET f == procs[p]
        user == NewUser(f.email, BcryptHash(f.req.password), now)
    IN  /\ f.pc = "signupInsert"
        /\ IF DuplicateKey(users, user)
           THEN /\ Respond(p, "signup", f.req, f.pre,
                           Resp(500, "SIGNUP_ERROR", "Server error during signup"))
                /\ UNCHANGED users
           ELSE /\ users' = Append(users, Persist(user))
                /\ Await(p, [pc |-> "signupTokens", req |-> f.req, pre |-> f.pre,
                             id |-> Len(users) + 1])
        /\ UNCHANGED <<now, streak, mail>>

\* signup, the two jwt.sign, 'user.refreshTokens = [refreshToken]', the second
\* 'await user.save()' (it writes the path it modified) and the 201.
SignupTokens(p) ==
    LET f == procs[p]
        email == users[f.id].email
        accessToken == AccessTokenFor(f.id, email, now)
        refreshToken == RefreshTokenFor(f.id, email, now)
    IN  /\ f.pc = "signupTokens"
        /\ users' = [users EXCEPT ![f.id].refreshTokens = <<refreshToken>>]
        /\ Respond(p, "signup", f.req, f.pre,
                   WithTokens(Resp(201, "", "User created successfully"),
                              accessToken, refreshToken))
        /\ UNCHANGED <<now, streak, mail>>

\* The logins in flight are followed while the stored list is shorter than this.
MaxSessions == 2

\* login, up to 'await User.findOne({ email })' and the tests of the document it
\* returned (isLocked, status).  The slot keeps the document as it was read.
LoginFind(p, rawEmail, password) ==
    LET email == NormalizeEmail(rawEmail)
        found == FindOneByEmail(users, email)
        id == Val(found)
        user == users[id]
        req(outcome) == [email |-> rawEmail, password |-> password, outcome |-> outcome]
    IN  /\ procs[p] = Idle
        /\ found # Undefined => Len(user.refreshTokens) < MaxSessions
        /\ IF ~LoginValidationOk(rawEmail, password)
           THEN Respond(p, "login", req("rejected"), users, ValidationError)
           ELSE IF found = Undefined
           THEN Respond(p, "login", req("unknown"), users, UnknownEmailResponse)
           ELSE IF LoginSeesLock(user)
           THEN Respond(p, "login", req("locked"), users, AccountLocked)
           ELSE IF user.status # "active"
           THEN Respond(p, "login", req("inactive"), users, AccountInactive)
           ELSE Await(p, [pc |-> "loginCompare", req |-> req("pending"), pre |-> users,
                          id |-> id, user |-> user])
        /\ UNCHANGED <<users, now, streak, mail>>

\* login, 'await bcrypt.compare(...)'.  A wrong password: incLoginAttempts, when the
\* document has it, and the 401.  The right one: resetLoginAttempts under the same
\* condition, 'user.lastLogin = new Date()' and the first 'await user.save()', which
\* writes the path the handler modified.
LoginCompare(p) ==
    LET f == procs[p]
        failed == LoginFailurePath(f.user)
        stamped == Assign(LoginSuccessPath(f.user), "lastLogin", now)
    IN  /\ f.pc = "loginCompare"
        /\ IF ~BcryptCompare(f.req.password, f.user.passwordHash)
           THEN /\ users' = IF failed = f.user THEN users
                            ELSE [users EXCEPT ![f.id] = Persist(failed)]
                /\ Respond(p, "login", [f.req EXCEPT !.outcome = "wrongPassword"],
                           f.pre, WrongPasswordResponse)
           ELSE /\ users' = [users EXCEPT ![f.id].lastLogin = now,
                                          ![f.id].loginAttempts = stamped.loginAttempts,
                                          ![f.id].lockUntil = stamped.lockUntil]
                /\ Await(p, [f EXCEPT !.pc = "loginTokens", !.user = stamped])
        /\ UNCHANGED <<now, streak, mail>>

\* login, the two jwt.sign, the push on the document's own list (cut to the latest
\* five), the second 'await user.save()' and the 200.  save() sends a push as a push
\* on the stored list, and a list that was reassigned as the whole list.
LoginTokens(p) ==
    LET f == procs[p]
        accessToken == AccessTokenFor(f.id, f.user.email, now)
        refreshToken == RefreshTokenFor(f.id, f.user.email, now)
        pushed == Append(f.user.refreshTokens, refreshToken)
    IN  /\ f.pc = "loginTokens"
        /\ users' = [users EXCEPT ![f.id].refreshTokens =
                        IF Len(pushed) > MaxRefreshTokens
                        THEN PushRefreshToken(f.user.refreshTokens, refreshToken)
                        ELSE Append(@, refreshToken)]
        /\ Respond(p, "login", [f.req EXCEPT !.outcome = "success"], f.pre,
                   WithTokens(Resp(200, "", "Login successful"),
                              accessToken, refreshToken))
        /\ UNCHANGED <<now, streak, mail>>

\* The reset tokens the server has written to its log, oldest first.
MaxMail == 2

\* forgot-password, up to 'await User.findOne({ email })', the res.json that follows
\* it at once, and, for a registered address, the jwt.sign and the two assignments:
\* the response has left when the handler reaches 'await user.save()'.
ForgotFind(p, rawEmail, password) ==
    LET email == NormalizeEmail(rawEmail)
        found == FindOneByEmail(users, email)
        id == Val(found)
        resetToken == ResetTokenFor(id, now)
        marked == Assign(Assign(users[id], "passwordResetToken", resetToken),
                         "passwordResetExpires", now + ResetTtl)
        req == [email |-> rawEmail, password |-> password]
    IN  /\ procs[p] = Idle
        /\ Len(mail) < MaxMail
        /\ IF ~LoginValidationOk(rawEmail, password)
           THEN Respond(p, "forgotPassword", req, users, ValidationError)
           ELSE IF found = Undefined
           THEN Respond(p, "forgotPassword", req, users, ResetEmailSent)
           ELSE /\ last' = [op |-> "forgotPassword", req |-> req, pre |-> users,
                            resp |-> ResetEmailSent]
                /\ procs' = [procs EXCEPT ![p] =
                                [pc |-> "forgotSave", id |-> id, user |-> marked,
                                 token |-> resetToken]]
        /\ UNCHANGED <<users, now, streak, mail>>

\* forgot-password, 'await user.save()' and the console.log of the token.  save()
\* writes the schema paths the handler modified, of the stored document.
ForgotSave(p) ==
    LET f == procs[p]
        modified == {"passwordResetToken", "passwordResetExpires"} \cap UserSchemaPaths
    IN  /\ f.pc = "forgotSave"
        /\ users' = [users EXCEPT ![f.id] =
                        [g \in DOMAIN @ |-> IF g \in modified THEN f.user[g] ELSE @[g]]]
        /\ mail' = Append(mail, f.token)
        /\ procs' = [procs EXCEPT ![p] = Idle]
        /\ UNCHANGED <<now, last, streak>>

\* Signups and logins in flight together, each handler advancing one await at a time,
\* and logouts, whose gate answers before its first await.
NextSteps ==
    \/ \E p \in Procs, e \in {<<"a">>, <<"A">>}, w \in {GoodPassword, ShortPassword} :
          SignupCheck(p, e, w)
    \/ \E p \in Procs : SignupInsert(p)
    \/ \E p \in Procs : SignupTokens(p)
    \/ \E p \in Procs, e \in {<<"a">>, <<"b">>}, w \in {GoodPassword, OtherPassword} :
          LoginFind(p, e, w)
    \/ \E p \in Procs : LoginCompare(p)
    \/ \E p \in Procs : LoginTokens(p)
    \/ \E b \in {Some(tok) : tok \in IssuedAccessTokens(users)},
          c \in {Some(tok) : tok \in StoredRefreshTokens(users)} : Logout(b, c)
    \/ Tick

SpecSteps == Init /\ [][NextSteps]_vars

\* Forgot-password requests in flight, after signups, and reset-password requests
\* presenting the tokens the server logged; the lock fields are written from outside.
NextForgot ==
    \/ \E e \in {<<"a">>}, w \in {GoodPassword} : Signup(e, w)
    \/ \E p \in Procs, e \in {<<"a">>, <<"b">>}, w \in {GoodPassword, NoPassword} :
          ForgotFind(p, e, w)
    \/ \E p \in Procs : ForgotSave(p)
    \/ \E k \in DOMAIN mail, n \in {OtherPassword, NoDigitPassword} :
          ResetPassword(Some(mail[k]), n)
    \/ \E i \in DOMAIN users, a \in 0..MaxAttempts, l \in {Undefined, Some(LockInstant)} :
          StoreUpdate(i, "active", a, l)
    \/ Tick

SpecForgot == Init /\ [][NextForgot]_vars

\* ======================================================================
\* Properties
\* ======================================================================
\* The stored document an email is registered under, in a given store.
Registered(store, rawEmail) ==
    {i \in DOMAIN store : CanonicalEmail(store[i].email) = CanonicalEmail(rawEmail)}

\* isLocked of the specification: lockUntil is set and lies in the future.
IsLocked(user, t) == user.lockUntil # Undefined /\ Val(user.lockUntil) > t

LoginSucceeded == last.op = "login" /\ last.resp.status = 200

\* ------------------------------------------------------------------- C1
\* C1: a stored refreshTokens list never holds more than 5 entries; a signup stores
\* exactly the token it issued, and a successful login appends the token it issued and,
\* when that makes 6, drops the oldest entry (the head of the list).
C1_RefreshTokensBounded ==
    /\ \A i \in DOMAIN users : Len(users[i].refreshTokens) <= 5
    /\ (last.op = "signup" /\ last.resp.status = 201)
          => users[Len(users)].refreshTokens = <<Val(last.resp.cookie)>>
    /\ LoginSucceeded =>
          \A i \in Registered(last.pre, last.req.email) :
             LET issued == Append(last.pre[i].refreshTokens, Val(last.resp.cookie))
             IN  users[i].refreshTokens =
                    IF Len(issued) <= 5 THEN issued ELSE Tail(issued)

\* A login evicted the oldest of 5 stored tokens, and the oldest was older than the rest.
C1_Witness ==
    /\ LoginSucceeded
    /\ \E i \in Registered(last.pre, last.req.email) :
          /\ Len(last.pre[i].refreshTokens) = 5
          /\ Head(last.pre[i].refreshTokens).iat < Head(users[i].refreshTokens).iat
          /\ users[i].refreshTokens[5] = Val(last.resp.cookie)

\* ------------------------------------------------------------------- C2
\* A login just failed the password check of a registered email.
WrongPasswordLogin ==
    /\ last.op = "login"
    /\ LoginValidationOk(last.req.email, last.req.password)
    /\ \E i \in Registered(last.pre, last.req.email) :
          ~BcryptCompare(last.req.password, last.pre[i].passwordHash)

\* C2: right after the 5th consecutive login with a wrong password for an identity
\* that had no lock, the identity is locked: lockUntil is the time of that failure
\* plus 2 hours, which lies in the future.
C2_LockedAfterFiveFailures ==
    (WrongPasswordLogin /\ streak.n = 5) =>
        \A i \in Registered(users, streak.who) :
            /\ users[i].lockUntil = Some(now + 2)
            /\ IsLocked(users[i], now)

\* ------------------------------------------------------------------- C3
\* C3: a login for an identity whose last 5 logins all failed the password check is
\* refused with 423 ACCOUNT_LOCKED and issues no tokens, whatever password it brings.
C3_LockedLoginRefused ==
    [][(/\ streak.n >= 5
        /\ last'.op = "login"
        /\ LoginValidationOk(last'.req.email, last'.req.password)
        /\ NormalizeEmail(last'.req.email) = streak.who)
       => (/\ last'.resp.status = 423
           /\ last'.resp.code = "ACCOUNT_LOCKED"
           /\ last'.resp.accessToken = Undefined
           /\ last'.resp.cookie = Undefined)]_vars

EmailsUnique ==
    \A i, j \in DOMAIN users :
        i # j => CanonicalEmail(users[i].email) # CanonicalEmail(users[j].email)

\* A signup was made with an address whose canonical form was already registered.
SignupOfRegistered ==
    last.op = "signup" /\ Registered(last.pre, last.req.email) # {}

ChangePasswordDue ==
    /\ last.op = "changePassword"
    /\ last.req.bearer # Undefined
    /\ LET token == Val(last.req.bearer)
       IN  /\ token.secret = JwtSecret
           /\ token.payload.purpose = ""
           /\ now < token.exp
           /\ token.payload.id \in DOMAIN last.pre
           /\ last.pre[token.payload.id].status = "active"
           /\ BcryptCompare(last.req.current, last.pre[token.payload.id].passwordHash)
    /\ StrongPassword(last.req.new)

UnknownEmailLogin ==
    /\ last.op = "login"
    /\ LoginValidationOk(last.req.email, last.req.password)
    /\ Registered(last.pre, last.req.email) = {}

\* A well-formed login for an active, unlocked identity with a password that is not its own.
WrongPasswordLoginOfActive ==
    /\ WrongPasswordLogin
    /\ \A i \in Registered(last.pre, last.req.email) :
          last.pre[i].status = "active" /\ ~IsLocked(last.pre[i], now)

\* C9: a login for an unregistered email and a login with a wrong password for a
\* registered, active, unlocked email get one and the same response: status 401, code
\* INVALID_CREDENTIALS, the same message, no token.
C9_LoginFailuresIndistinguishable ==
    (UnknownEmailLogin \/ WrongPasswordLoginOfActive) =>
        /\ last.resp.status = 401
        /\ last.resp.code = "INVALID_CREDENTIALS"
        /\ last.resp.message = "Invalid credentials"
        /\ last.resp.accessToken = Undefined
        /\ last.resp.cookie = Undefined
        /\ users = last.pre

\* A wrong-password login was answered, and the same password with an unregistered
\* address gets the same answer in this state.
C9_Witness ==
    /\ WrongPasswordLoginOfActive
    /\ \E e \in RawEmails :
          /\ Registered(users, e) = {}
          /\ LoginResult(users, e, last.req.password, now).resp = last.resp

\* ------------------------------------------------------------------ C10
\* C10: forgotPassword answers every well-formed email, registered or not, with
\* status 200 and the one generic body.
C10_ForgotPasswordAlwaysGeneric ==
    (last.op = "forgotPassword" /\ IsEmail(last.req.email)) =>
        /\ last.resp.status = 200
        /\ last.resp.code = "RESET_EMAIL_SENT"

\* ------------------------------------------------------------------ C11
\* The step after a forgot-password for a registered address is a reset-password that
\* presents the token that request signed, with a password of the strength policy.
ResetWithFreshToken ==
    /\ last.op = "forgotPassword"
    /\ last.resp = ResetEmailSent
    /\ last'.op = "resetPassword"
    /\ StrongPassword(last'.req.new)
    /\ \E i \in Registered(users, last.req.email) :
          last'.req.token = Some(ResetTokenFor(i, now))

ProtectedOps == {"logout", "logoutAll", "verify", "changePassword"}

\* The token a request presents to its gate, if the route has one.
PresentedToken ==
    IF last.op \in ProtectedOps THEN last.req.bearer
    ELSE IF last.op = "refresh" THEN last.req.token
    ELSE Undefined

ResetClass(token) == token.payload.purpose = "password-reset"

\* The token is the one a forgot-password request, the step before, signed.
FreshResetToken(token) ==
    /\ last.op = "forgotPassword"
    /\ last.resp = ResetEmailSent
    /\ \E i \in Registered(users, last.req.email) : token = Some(ResetTokenFor(i, now))

\* C12: a reset-class token is refused with a token error by the Request Gate
\* (INVALID_TOKEN or TOKEN_EXPIRED) and by refresh (INVALID_REFRESH_TOKEN); the request
\* gets no access token and changes no document.
C12_ResetTokenNeverAccepted ==
    [][(FreshResetToken(PresentedToken') /\ ResetClass(Val(PresentedToken'))) =>
          /\ last'.op \in ProtectedOps =>
                last'.resp.code \in {"INVALID_TOKEN", "TOKEN_EXPIRED"}
          /\ last'.op = "refresh" => last'.resp.code = "INVALID_REFRESH_TOKEN"
          /\ last'.resp.accessToken = Undefined
          /\ users' = users]_vars

\* ------------------------------------------------------------------ C13
\* Tokens as login and signup sign them: no purpose claim, one secret per class.
AccessClass(token) == token.secret = JwtSecret /\ token.payload.purpose = ""

RefreshClass(token) == token.secret = RefreshSecret /\ token.payload.purpose = ""

ResetWithWrongPurpose ==
    /\ last.op = "resetPassword"
    /\ NotEmpty(last.req.new)
    /\ last.req.token # Undefined
    /\ Val(last.req.token).secret = JwtSecret
    /\ now < Val(last.req.token).exp
    /\ ~ResetClass(Val(last.req.token))

\* C14: resetPassword with a validly signed, unexpired token whose purpose is not
\* password-reset always fails with 400 INVALID_RESET_TOKEN, whatever the new password,
\* issues nothing and changes no document.
C14_WrongPurposeRefused ==
    ResetWithWrongPurpose =>
        /\ last.resp = Resp(400, "INVALID_RESET_TOKEN", "Invalid reset token")
        /\ users = last.pre

\* An access token that login or signup issued was presented with a new password of
\* the strength policy, and refused for its purpose.
C14_Witness ==
    /\ ResetWithWrongPurpose
    /\ Val(last.req.token) \in IssuedAccessTokens(users)
    /\ StrongPassword(last.req.new)
    /\ last.resp.code = "INVALID_RESET_TOKEN"

\* ------------------------------------------------------------------ C15
\* A well-formed login for a registered, unlocked identity that is inactive or suspended.
InactiveLogin ==
    /\ last.op = "login"
    /\ LoginValidationOk(last.req.email, last.req.password)
    /\ \E i \in Registered(last.pre, last.req.email) :
          /\ last.pre[i].status \in {"inactive", "suspended"}
          /\ ~IsLocked(last.pre[i], now)

\* C15: only an active identity can log in: a login for an inactive or suspended,
\* unlocked identity is answered 401 ACCOUNT_INACTIVE whatever the password, issues no
\* token and changes no field of the document; every successful login is of an
\* identity whose status was active.
C15_OnlyActiveAuthenticates ==
    /\ InactiveLogin =>
          /\ last.resp.status = 401
          /\ last.resp.code = "ACCOUNT_INACTIVE"
          /\ last.resp.accessToken = Undefined
          /\ last.resp.cookie = Undefined
          /\ users = last.pre
    /\ LoginSucceeded =>
          \A i \in Registered(last.pre, last.req.email) : last.pre[i].status = "active"

\* A suspended identity presented its own password and was refused.
C15_Witness ==
    /\ InactiveLogin
    /\ \E i \in Registered(last.pre, last.req.email) :
          /\ last.pre[i].status = "suspended"
          /\ BcryptCompare(last.req.password, last.pre[i].passwordHash)
    /\ last.resp.code = "ACCOUNT_INACTIVE"

\* ------------------------------------------------------------------ C16
\* The answers authenticateToken gives itself, without calling the handler.
GateCodes ==
    {"MISSING_TOKEN", "TOKEN_EXPIRED", "INVALID_TOKEN", "USER_NOT_FOUND",
     "ACCOUNT_INACTIVE", "AUTH_ERROR"}

\* The outcome the Request Gate owes a bearer token: the code of its refusal, or
\* "next" when the handler is to be called.
GateOutcome(store, bearer, t) ==
    IF bearer = Undefined THEN "MISSING_TOKEN"
    ELSE IF Val(bearer).secret # JwtSecret THEN "INVALID_TOKEN"
    ELSE IF t >= Val(bearer).exp THEN "TOKEN_EXPIRED"
    ELSE IF Val(bearer).payload.id \notin DOMAIN store THEN "USER_NOT_FOUND"
    ELSE IF store[Val(bearer).payload.id].status = "inactive" THEN "ACCOUNT_INACTIVE"
    ELSE "next"

\* A request to a protected route with no token or a token without purpose claim.
GateRequest ==
    /\ last.op \in ProtectedOps
    /\ last.req.bearer # Undefined => ~ResetClass(Val(last.req.bearer))

\* C16: on every protected route the Request Gate answers a missing token with
\* MISSING_TOKEN, an expired one with TOKEN_EXPIRED, a badly signed one with
\* INVALID_TOKEN, a missing subject with USER_NOT_FOUND, an inactive subject with
\* ACCOUNT_INACTIVE, and in every other case hands the request to the handler.
C16_GateOutcomes ==
    GateRequest =>
        LET due == GateOutcome(last.pre, last.req.bearer, now)
        IN  IF due = "next"
            THEN last.resp.code \notin GateCodes
            ELSE last.resp.code = due

\* ------------------------------------------------------------------ C17
\* The presented refresh token verifies as refresh class and its subject is stored.
RefreshDue ==
    /\ RefreshClass(Val(last.req.token))
    /\ now < Val(last.req.token).exp
    /\ Val(last.req.token).payload.id \in DOMAIN last.pre

\* C17: refresh answers 401 INVALID_REFRESH_TOKEN when the presented token fails
\* verification or its subject is not stored; otherwise it answers 200 with a new
\* access token for the subject and no new refresh token; in both cases every
\* document, its refreshTokens list included, is left as it was.
C17_RefreshIssuesAccessTokenOnly ==
    (last.op = "refresh" /\ last.req.token # Undefined) =>
        /\ users = last.pre
        /\ last.resp.cookie = Undefined
        /\ IF RefreshDue
           THEN /\ last.resp.status = 200
                /\ last.resp.accessToken # Undefined
                /\ Val(last.resp.accessToken).payload.id = Val(last.req.token).payload.id
                /\ AccessClass(Val(last.resp.accessToken))
           ELSE last.resp = InvalidRefreshToken

\* ------------------------------------------------------------------ C18
\* The bearer token of the request is an unexpired access token of a stored identity
\* that is not inactive: the request is the handler's to answer.
Authenticated ==
    /\ last.req.bearer # Undefined
    /\ AccessClass(Val(last.req.bearer))
    /\ GateOutcome(last.pre, last.req.bearer, now) = "next"

\* C18: a logout by an authenticated identity succeeds; with a refresh token supplied
\* it removes exactly that token from the identity's list and keeps the others in
\* their order; with a token that is not in the list, or with none, the list is
\* unchanged; no other document changes.
C18_LogoutRemovesExactlyOneToken ==
    (last.op = "logout" /\ Authenticated) =>
        LET id == Val(last.req.bearer).payload.id
            before == last.pre[id].refreshTokens
            after == IF last.req.cookie = Undefined THEN before
                     ELSE SelectSeq(before, LAMBDA x : x # Val(last.req.cookie))
        IN  /\ last.resp.status = 200
            /\ users = [last.pre EXCEPT ![id].refreshTokens = after]

\* ------------------------------------------------------------------ C19
\* C19: a changePassword by an authenticated identity whose currentPassword is not
\* the stored one is answered 400 INVALID_CURRENT_PASSWORD and changes no document:
\* passwordHash and refreshTokens stay as they were.
C19_WrongCurrentPasswordRefused ==
    (/\ last.op = "changePassword"
     /\ Authenticated
     /\ ChangePasswordValidationOk(last.req.current, last.req.new)
     /\ ~BcryptCompare(last.req.current,
                       last.pre[Val(last.req.bearer).payload.id].passwordHash)) =>
        /\ last.resp.status = 400
        /\ last.resp.code = "INVALID_CURRENT_PASSWORD"
        /\ users = last.pre

\* ------------------------------------------------------------------ C20
\* A reset-password request with both fields and a reset-class token.
ResetWithResetToken ==
    /\ last.op = "resetPassword"
    /\ NotEmpty(last.req.new)
    /\ last.req.token # Undefined
    /\ ResetClass(Val(last.req.token))

\* One of the three refusal conditions holds for the token in the store the request
\* found: no subject, a stored passwordResetToken other than the presented token
\* (or none stored), a stored passwordResetExpires that has passed.
ResetConditionFails ==
    LET token == Val(last.req.token)
        id == token.payload.id
    IN  \/ id \notin DOMAIN last.pre
        \/ Get(last.pre[id], "passwordResetToken") # Some(token)
        \/ /\ Get(last.pre[id], "passwordResetExpires") # Undefined
           /\ Val(Get(last.pre[id], "passwordResetExpires")) < now

\* C20: resetPassword with a reset-class token is answered 400
\* INVALID_OR_EXPIRED_TOKEN and changes no field of any document whenever the subject
\* is missing, the stored passwordResetToken is not the presented token, or the stored
\* expiry has passed; a reset that succeeds had none of the three.
C20_ResetRefusalConditions ==
    ResetWithResetToken =>
        /\ ResetConditionFails =>
              /\ last.resp = InvalidOrExpiredToken
              /\ last.resp.status = 400
              /\ users = last.pre
        /\ last.resp.status = 200 => ~ResetConditionFails

\* A reset token that verifies, for a stored subject, with a new password of the
\* strength policy, was refused because the document holds no such token.
C20_Witness ==
    /\ ResetWithResetToken
    /\ JwtVerify(Val(last.req.token), JwtSecret, now) = "ok"
    /\ Val(last.req.token).payload.id \in DOMAIN last.pre
    /\ StrongPassword(last.req.new)
    /\ ResetConditionFails
    /\ last.resp.code = "INVALID_OR_EXPIRED_TOKEN"

\* ------------------------------------------------------------------ C21
\* The unique index on email: one record per canonical email.
OneRecordPerEmail ==
    \A i, j \in DOMAIN users : users[i].email = users[j].email => i = j

\* A signup that passed validation and whose existence check found no record under
\* its canonical email, yet created nothing: its insert met the record of a signup
\* that was in flight with it.
SignupLostRace ==
    /\ last.op = "signup"
    /\ SignupValidationOk(last.req.email, last.req.password)
    /\ FindOneByEmail(last.pre, NormalizeEmail(last.req.email)) = Undefined
    /\ last.resp.status # 201

\* C21: of two signups in flight with the same canonical email that both pass the
\* existence check, one creates the record and the other, refused by the unique
\* index, is answered 400 USER_EXISTS; the store holds one record for the email.
C21_RaceLoserGetsUserExists ==
    /\ SignupLostRace => (last.resp.status = 400 /\ last.resp.code = "USER_EXISTS")
    /\ OneRecordPerEmail

\* ------------------------------------------------------------------ C22
\* C22: a wrong-password login writes loginAttempts as the value it read plus one;
\* two such logins in flight together that both read n both write n + 1, so the
\* stored counter is n + 1 when either has answered.
C22_FailedLoginWritesReadPlusOne ==
    (last.op = "login" /\ last.req.outcome = "wrongPassword") =>
        LET id == Val(FindOneByEmail(last.pre, NormalizeEmail(last.req.email)))
        IN  users[id].loginAttempts = last.pre[id].loginAttempts + 1

\* ------------------------------------------------------------------ C23
\* A login with the stored password for an active identity whose lockUntil is set
\* and has been reached by the clock.
LoginAfterLockElapsed ==
    /\ last.op = "login"
    /\ LoginValidationOk(last.req.email, last.req.password)
    /\ \E i \in Registered(last.pre, last.req.email) :
          /\ last.pre[i].status = "active"
          /\ last.pre[i].lockUntil # Undefined
          /\ Val(last.pre[i].lockUntil) <= now
          /\ BcryptCompare(last.req.password, last.pre[i].passwordHash)

C24_RecordNeverWithoutToken ==
    \A i \in DOMAIN users : users[i].refreshTokens # <<>>

RefreshWithLiveToken ==
    /\ last.op = "refresh"
    /\ last.req.token # Undefined
    /\ RefreshClass(Val(last.req.token))
    /\ JwtVerify(Val(last.req.token), RefreshSecret, now) = "ok"
    /\ Val(last.req.token).payload.id \in DOMAIN last.pre

\* C26: a refresh hands out an access token only for an identity that is stored,
\* active and not locked at the time of the request.
C26_RefreshOnlyForActiveUnlocked ==
    (last.op = "refresh" /\ last.resp.accessToken # Undefined) =>
        /\ RefreshWithLiveToken
        /\ LET user == last.pre[Val(last.req.token).payload.id]
           IN  /\ user.status = "active"
               /\ ~(user.lockUntil # Undefined /\ Val(user.lockUntil) > now)

\* A suspended or locked identity presents its own live refresh token and gets no
\* access token.
C26_Witness ==
    /\ RefreshWithLiveToken
    /\ LET user == last.pre[Val(last.req.token).payload.id]
       IN  \/ user.status # "active"
           \/ (user.lockUntil # Undefined /\ Val(user.lockUntil) > now)
    /\ last.resp.status = 401
    /\ last.resp.accessToken = Undefined

\* ------------------------------------------------------------------ C27
\* C27: when forgot-password has answered RESET_EMAIL_SENT for a registered email,
\* the stored record already holds the reset token signed for that request and its
\* expiry, one hour later: the response follows the write.
C27_ForgotAnswersAfterWrite ==
    (last.op = "forgotPassword" /\ last.resp.code = "RESET_EMAIL_SENT") =>
        \A i \in Registered(last.pre, last.req.email) :
            /\ Get(users[i], "passwordResetToken") = Some(ResetTokenFor(i, now))
            /\ Get(users[i], "passwordResetExpires") = Some(now + ResetTtl)

\* ------------------------------------------------------------------ C28
\* A reset-password request presenting a token that forgot-password logged, with a
\* new password, after a later forgot-password for the same identity logged another:
\* the presented token is still within its hour.
ResetWithSupersededToken ==
    /\ last.op = "resetPassword"
    /\ last.req.token # Undefined
    /\ NotEmpty(last.req.new)
    /\ JwtVerify(Val(last.req.token), JwtSecret, now) = "ok"
    /\ \E k, l \in DOMAIN mail :
          /\ mail[k] = Val(last.req.token)
          /\ mail[l].payload.id = mail[k].payload.id
          /\ mail[l].iat > mail[k].iat

\* C28: at most one reset token is valid per identity.  After two forgot-password
\* requests for an identity, a reset-password presenting the earlier token is
\* answered 400 INVALID_OR_EXPIRED_TOKEN and changes nothing, so a reset can only
\* succeed with the later one.
C28_EarlierResetTokenRefused ==
    ResetWithSupersededToken =>
        /\ last.resp.status = 400
        /\ last.resp.code = "INVALID_OR_EXPIRED_TOKEN"
        /\ users = last.pre

C28_Witness ==
    /\ ResetWithSupersededToken
    /\ StrongPassword(last.req.new)
    /\ last.resp.code = "INVALID_OR_EXPIRED_TOKEN"

\* ------------------------------------------------------------------ C29
\* A reset-password request for a locked identity, presenting the latest token that
\* forgot-password logged for it, still within its hour, with a strong new password.
ResetOfLockedIdentity ==
    /\ last.op = "resetPassword"
    /\ last.req.token # Undefined
    /\ NotEmpty(last.req.new)
    /\ last.req.new.len >= 8 /\ last.req.new.lower /\ last.req.new.upper
    /\ last.req.new.digit
    /\ JwtVerify(Val(last.req.token), JwtSecret, now) = "ok"
    /\ \E k \in DOMAIN mail :
          /\ mail[k] = Val(last.req.token)
          /\ \A l \in DOMAIN mail :
                mail[l].payload.id = mail[k].payload.id => mail[l].iat <= mail[k].iat
    /\ Val(last.req.token).payload.id \in DOMAIN last.pre
    /\ IsLocked(last.pre[Val(last.req.token).payload.id], now)

MeetsPolicy(p) == p.len >= 8 /\ p.lower /\ p.upper /\ p.digit

\* The password a signup, change-password or reset-password request asks to store.
RequestedPassword ==
    IF last.op = "signup" THEN last.req.password ELSE last.req.new

\* C30: every stored password meets the strength policy, and a signup,
\* change-password or reset-password request that asks to store a password which
\* does not meet it is refused and leaves every record as it was.
C30_StoredPasswordsMeetPolicy ==
    /\ \A i \in DOMAIN users : MeetsPolicy(users[i].passwordHash[3])
    /\ (/\ last.op \in {"signup", "changePassword", "resetPassword"}
        /\ ~MeetsPolicy(RequestedPassword))
          => (last.resp.status >= 400 /\ users = last.pre)

\* A reset-password request that presents a validly signed, unexpired reset token of
\* a stored identity with a new password that lacks a digit: refused, nothing stored.
C30_Witness ==
    /\ last.op = "resetPassword"
    /\ last.req.token # Undefined
    /\ JwtVerify(Val(last.req.token), JwtSecret, now) = "ok"
    /\ Val(last.req.token).payload.purpose = "password-reset"
    /\ Val(last.req.token).payload.id \in DOMAIN last.pre
    /\ last.req.new = NoDigitPassword
    /\ last.resp.status = 400
    /\ users = last.pre
    /\ \A i \in DOMAIN users : MeetsPolicy(users[i].passwordHash[3])

====
